---- MODULE Spec2Model ----
(***************************************************************************)
(* Streaming transcription service of Taiwan-Tongues-ASR-CE                *)
(* (api/streaming_asr.py and api/stt_streaming/src) and its file service   *)
(* (api/file_asr.py).                                                      *)
(*                                                                         *)
(* The module holds eleven specifications over the same variables:         *)
(*   Spec           one admitted session after startup: its receive loop   *)
(*                  (handle_audio), its Client, the SilenceAtEndOfChunk    *)
(*                  strategy objects and the recognition tasks             *)
(*                  (process_audio_async).                                 *)
(*   TimedSpec      the same with the clock advancing.                     *)
(*   FairSpec       the same with the event loop running every task that   *)
(*                  is ready.                                              *)
(*   StartupSpec    the session admitted while the startup task is still   *)
(*                  to run.                                                *)
(*   AdmissionSpec  the connection handler (streaming_stt_recognization)   *)
(*                  of several connections and the registry.               *)
(*   FairAdmissionSpec  the same from an empty registry, with the event    *)
(*                  loop running every handler and notification task.      *)
(*   FileSpec       the subtitle tasks of the file service and the         *)
(*                  requests to its endpoints.                             *)
(*   TriggerSpec    the trigger test of process_audio_async on its own.    *)
(*   TextSpec       StartupSpec with audio arriving in text messages too.  *)
(*   PairSpec       Spec with a second session of the same token beside    *)
(*                  the first.                                             *)
(*   ReceiveSpec    Spec with the receive call failing and the peer        *)
(*                  closing, under a fair event loop.                      *)
(*                                                                         *)
(* Audio is a sequence of frames; a frame is identified by its position in *)
(* the arrival order and has a size in bytes.  Buffers are sequences of    *)
(* frame identifiers, because the code only ever moves or clears whole     *)
(* buffers.  Durations are compared in integers: a length of L bytes lasts *)
(* L / (sampling_rate * samples_width) seconds, and every comparison of    *)
(* the code is multiplied through by 1000 * sampling_rate * samples_width. *)
(* Wall-clock time (time.time()) is counted in half seconds.               *)
(***************************************************************************)
EXTENDS Integers, Sequences, FiniteSets, TLC

VARIABLES
    \* the process
    vad_pipeline,       \* streaming_asr.vad_pipeline: "unset" | "ok" | "none"
    asr_pipeline,       \* streaming_asr.asr_pipeline: "unset" | "ok" | "none"
    asr_ready_event,    \* streaming_asr.asr_ready_event.is_set()
    connected_clients,  \* streaming_asr.connected_clients: the Clients, by connection
    conn,               \* every connection: its handler's position, token and tasks
    sent,               \* per connection, the messages handed to its websocket, in order
    \* the session of connection Focus
    now,                \* time.time(), in half seconds
    appended,           \* sizes of the frames given to append_audio_data, in order
    buffer,             \* Client.buffer (pending audio): frame ids
    scratch_buffer,     \* Client.scratch_buffer (working audio): frame ids
    sampling_rate,      \* Client.sampling_rate
    connect_time,       \* Client.connect_time
    file_counter,       \* Client.file_counter
    strategies,         \* every SilenceAtEndOfChunk built for the session; the last is Client.buffering_strategy
    tasks,              \* every process_audio_async task created, in creation order
    delivered,          \* the audio each Recognizer call was given, in call order
    dropped,            \* the frames an empty detector result cleared from the working buffer
    transcript,         \* Client.transcript
    \* what the run may still do
    frames_left,        \* audio frames the session may still receive
    configs_left,       \* text messages the session may still receive
    horizon,            \* the latest reading of the clock in the run
    arrivals_left,      \* connections that may still arrive
    closes_left,        \* disconnects that may still happen
    \* the file service (file_asr.py)
    subtitle_tasks,     \* the rows of table subtitle_tasks, by id, with their worker
    request,            \* the latest request made to the file service
    response,           \* the latest response the file service gave
    requests_left,      \* requests that may still be made
    \* the trigger test of process_audio_async taken on its own
    trigger_in,         \* its inputs
    trigger_out,        \* whether the Recognizer is called
    \* a second session of the same user
    peer                \* its Client, its strategy and its recognition tasks

process == <<vad_pipeline, asr_pipeline, asr_ready_event>>
client  == <<appended, buffer, scratch_buffer, sampling_rate, connect_time, file_counter,
             strategies, tasks, delivered, dropped, transcript>>
budget  == <<frames_left, configs_left, horizon, arrivals_left, closes_left>>

functions == <<trigger_in, trigger_out>>
streaming == <<process, connected_clients, conn, sent, now, client, budget, functions, peer>>
fileasr == <<subtitle_tasks, request, response, requests_left>>

vars == <<streaming, fileasr, functions, peer>>

----------------------------------------------------------------------------
\* Bounds of the model.
MaxFrames == 3
MaxConfigs == 1
MaxTime == 2
TimedFrames == 2
TimedConfigs == 1
LiveFrames == 1
LiveConfigs == 1
StartupFrames == 1
StartupConfigs == 1
MaxArrivals == 2
MaxDisconnects == 1
\* Requests made to the file service in a run of FileSpec.
MaxRequests == 3

\* Program constants.
max_streaming_count == 10
samples_width == 2
default_sampling_rate == 16000
default_chunk_length_ms == 1500
default_chunk_offset_ms == 100
min_duration_ms == 100
slack_ms == 2000
last_start_time == 0

NoTime == 0 - 1

\* The connections; Focus is the one whose session the session
\* specifications follow.
Conns == 1 .. (max_streaming_count + MaxArrivals)
Focus == 1

\* The token query parameter of a handshake; "" stands for none given.
Tokens == {"", "a", "b"}

\* The token of a session admitted before the run starts: one user each,
\* none of them a user of Tokens.
PriorToken(c) == ToString(c)

\* Sizes, in bytes, of the inbound audio frames the model draws from:
\* an empty frame, 0.05 s, 2.0 s and 3.0 s of 16 kHz 16-bit audio.
FrameSizes == {0, 1600, 64000, 96000}

\* Inputs of the trigger test taken on its own: sampling rates, lengths of
\* the working buffer and ends of the last interval in milliseconds, and
\* chunk_offset_seconds in milliseconds.
TriggerRates == {8000, 16000}
WorkingMs == {1000, 2000, 2100, 2200, 3000}
IntervalEndMs == {500, 1800, 1900, 2000, 2100, 3000}
OffsetsMs == {0, 100, 500}

\* Durations, in seconds, a transcription may report.
Durations == {1}

\* Config messages the model draws from: processing_args given or not
\* (chunk_length_seconds, chunk_offset_seconds in ms), sampleRate given or not.
ConfigMsgs ==
    { [has_args |-> TRUE,  chunk_length_ms |-> 1500, chunk_offset_ms |-> 100,
       has_rate |-> FALSE, sampleRate |-> 0],
      [has_args |-> TRUE,  chunk_length_ms |-> 0,    chunk_offset_ms |-> 100,
       has_rate |-> FALSE, sampleRate |-> 0],
      [has_args |-> FALSE, chunk_length_ms |-> 0,    chunk_offset_ms |-> 0,
       has_rate |-> TRUE,  sampleRate |-> 0] }

\* Text messages that are no well-formed control message: a text that is not
\* JSON, a JSON value that is not an object, an object that is neither a
\* config nor an audio payload, an audio payload that is not base64, and a
\* config whose processing_args lack chunk_length_seconds.
MalformedMsgs == {"not_json", "not_object", "unknown_shape", "bad_base64",
                  "bad_args"}

\* What handle_audio catches next to the statement that raises, and skips:
\* json.JSONDecodeError, the exception of b64decode; the unknown shape
\* raises nothing.
SkippedMsgs == {"not_json", "unknown_shape", "bad_base64"}

\* The status column of subtitle_tasks.
STATUS_FAILED == 4
STATUS_UPLOAD_IN_PROGRESS == 10
STATUS_AUDIO_WAITING == 20
STATUS_AUDIO_PROCESSING == 21
STATUS_AUDIO_DONE == 22

\* The Authorization header of a request to the file service: absent (or of
\* another scheme), "Bearer" with nothing after it, a token jwt.decode
\* rejects, an expired token, a valid token.
Credentials == {"none", "empty", "invalid", "expired", "valid"}

\* The headers for which HTTPBearer(auto_error=False) yields no credentials.
NoBearerToken == {"none", "empty"}

\* The endpoints of the file service that depend on _require_auth: the one
\* that creates a task and the ones that read one.
ReadEndpoints == {"status", "types", "link", "download"}

\* Task ids a request may name: the tasks there may be, and one more.
TaskIds == 1 .. (MaxRequests + 1)

----------------------------------------------------------------------------
\* Helpers.

RECURSIVE BytesOf(_, _)
BytesOf(sizes, ids) ==
    IF ids = <<>> THEN 0 ELSE sizes[Head(ids)] + BytesOf(sizes, Tail(ids))

Range(q) == {q[i] : i \in DOMAIN q}

\* int(x) for x in half seconds: truncation toward zero, in whole seconds.
IntTrunc(h) == IF h >= 0 THEN h \div 2 ELSE 0 - ((0 - h) \div 2)

\* The id of a message that has no id field (a Response).
NoId == 0

\* Every message has the same fields; id is the correlation id it carries
\* (the connection's connection_id, modelled by the connection's number),
\* task and audio say which recognition task a result comes from and which
\* frames its transcription was given.
Msg(code, kind, id) ==
    [code |-> code, kind |-> kind, id |-> id, task |-> 0, startTime |-> 0,
     endTime |-> 0, audio |-> <<>>]
\* json.dumps({"id": connection_id, "code": 100, ...})
Starting(c) == Msg(100, "starting", c)
\* json.dumps({"id": connection_id, "taskId": task_id, "code": 180, ...})
Ready(c)    == Msg(180, "ready", c)
\* Response(code, description, data): no id.
ErrorMsg  == Msg(400, "error", NoId)
ConfigAck == Msg(200, "config_ack", NoId)
AudioAck  == Msg(200, "audio_ack", NoId)
\* The payload of process_audio_async, with the client's connection_id.
ResultMsg(c, t, start, dur, audio) ==
    [code |-> 200, kind |-> "result", id |-> c, task |-> t, startTime |-> start,
     endTime |-> start + dur, audio |-> audio]

\* SilenceAtEndOfChunk.__init__
NewStrategy(chunk_length_ms, chunk_offset_ms) ==
    [chunk_length_ms |-> chunk_length_ms, chunk_offset_ms |-> chunk_offset_ms,
     processing_flag |-> FALSE, start_time |-> NoTime]

\* Client.buffering_strategy
Cur == Len(strategies)

\* The threshold test of process_audio:
\* len(buffer) > chunk_length_seconds * sampling_rate * samples_width
ExceedsChunk(nbytes, chunk_length_ms, rate) ==
    nbytes * 1000 > chunk_length_ms * rate * samples_width

\* SimpleVAD.detect_activity raises ZeroDivisionError on a non-empty buffer
\* when sampling_rate * samples_width is 0.
DetectRaises(nbytes, rate) == nbytes # 0 /\ rate * samples_width = 0

\* SimpleVAD.detect_activity: <<>> for no interval, else <<e>> where the one
\* interval ends after e bytes of audio (e / (rate * width) seconds).
detect_activity(nbytes, rate) ==
    IF nbytes = 0 THEN <<>>
    ELSE IF nbytes * 1000 < min_duration_ms * rate * samples_width THEN <<>>
    ELSE <<nbytes>>

\* The second clause of the trigger test met at 2 seconds already.
OverSlackAtLeast(nbytes, chunk_offset_ms, rate) ==
    nbytes * 1000 - chunk_offset_ms * rate * samples_width
        >= slack_ms * rate * samples_width

\* last_segment_should_end_before > 2, the second clause of the trigger test.
OverSlack(nbytes, chunk_offset_ms, rate) ==
    nbytes * 1000 - chunk_offset_ms * rate * samples_width
        > slack_ms * rate * samples_width

\* The trigger test without its second clause.
ShouldTranscribeSilenceOnly(vad_end, nbytes, chunk_offset_ms, rate) ==
    vad_end * 1000 < nbytes * 1000 - chunk_offset_ms * rate * samples_width

\* The trigger test of process_audio_async:
\* vad_results[-1]["end"] < last_segment_should_end_before
\*     or last_segment_should_end_before > 2
ShouldTranscribe(vad_end, nbytes, chunk_offset_ms, rate) ==
    \/ vad_end * 1000 < nbytes * 1000 - chunk_offset_ms * rate * samples_width
    \/ OverSlack(nbytes, chunk_offset_ms, rate)

\* The capacity test taken one too late.
AtCapacityAbove(n) == n > max_streaming_count

\* The capacity test of streaming_stt_recognization.
AtCapacity(n) == n >= max_streaming_count

\* audio_utils.save_audio_to_file, the one await inside
\* FasterWhisperASR.transcribe: whether the Recognizer call suspends the
\* task and lets the receive loop and other tasks run meanwhile.
TranscribeSuspends == TRUE

\* No task is inside a Recognizer call that blocks the event loop.
LoopFree ==
    TranscribeSuspends \/ \A t \in DOMAIN tasks : tasks[t].pc # "asr"

\* promoted is the audio the attempt moved to the working buffer; audio is
\* the working buffer its Recognizer call was given.
NewTask(strat, st, promoted) ==
    [pc |-> "created", strat |-> strat, start_time |-> st, stt |-> 0,
     promoted |-> promoted, audio |-> <<>>, cause |-> "none"]
DoneTask(tk) ==
    [pc |-> "done", strat |-> tk.strat, start_time |-> 0, stt |-> 0,
     promoted |-> tk.promoted, audio |-> <<>>, cause |-> "none"]
\* A task an exception ended: it set nothing back.
FailedTask(tk, why) ==
    [pc |-> "failed", strat |-> tk.strat, start_time |-> 0, stt |-> 0,
     promoted |-> tk.promoted, audio |-> <<>>, cause |-> why]

\* A connection no handler has been started for.
IdleConn == [pc |-> "idle", token |-> "", outcome |-> "none", notify |-> "none",
             err |-> "none", recv |-> "ok"]

\* handle_audio's finally block: the first registry entry whose client_id
\* equals the client's is removed.
RECURSIVE RemoveFirst(_, _)
RemoveFirst(q, tok) ==
    IF q = <<>> THEN <<>>
    ELSE IF conn[Head(q)].token = tok THEN Tail(q)
    ELSE <<Head(q)>> \o RemoveFirst(Tail(q), tok)

----------------------------------------------------------------------------
\* Initial states.

\* The status code with which the file service answers a request to endpoint ep.
HttpResponse(ep, code) == [endpoint |-> ep, code |-> code]

\* No trigger test is taken on its own.
TriggerIdle ==
    /\ trigger_in = [nbytes |-> 0, vad_end |-> 0, chunk_offset_ms |-> 0, rate |-> 0]
    /\ trigger_out = "none"

NoRequest == [endpoint |-> "none", cred |-> "none", id |-> 0]

\* The file service has no task and is asked nothing.
FileIdle ==
    /\ subtitle_tasks = <<>>
    /\ request = NoRequest
    /\ response = HttpResponse("none", 0)
    /\ requests_left = 0

\* The connection of the second session.
Peer == 2

\* The Client of a second session as Client.__init__ leaves it, with the
\* frames and config messages it may still receive: appended holds the sizes
\* of the frames received, the buffers hold positions in it, tasks holds for
\* every outstanding recognition task whether the strategy object that
\* created it is still the Client's.
FreshPeer(frames, configs) ==
    [appended |-> <<>>, buffer |-> <<>>, scratch_buffer |-> <<>>,
     processing_flag |-> FALSE, chunk_length_ms |-> default_chunk_length_ms,
     sampling_rate |-> default_sampling_rate, tasks |-> <<>>,
     frames_left |-> frames, configs_left |-> configs]

\* There is no second session.
NoPeer == peer = FreshPeer(0, 0)

\* The Client as Client.__init__ leaves it.
FreshClient ==
    /\ now = 0
    /\ appended = <<>>
    /\ buffer = <<>>
    /\ scratch_buffer = <<>>
    /\ sampling_rate = default_sampling_rate
    /\ connect_time = NoTime
    /\ file_counter = 0
    /\ strategies = <<NewStrategy(default_chunk_length_ms, default_chunk_offset_ms)>>
    /\ tasks = <<>>
    /\ delivered = <<>>
    /\ dropped = {}
    /\ transcript = <<>>

\* The startup task has finished with one of its outcomes, or was skipped
\* (FASTAPI_SKIP_INIT).
Started ==
    \E v \in {"ok", "none"}, a \in {"ok", "none"}, skip \in BOOLEAN :
       /\ vad_pipeline = IF skip THEN "unset" ELSE v
       /\ asr_pipeline = IF skip THEN "unset" ELSE a
       /\ asr_ready_event = (~skip /\ a = "ok")

NotStarted ==
    /\ vad_pipeline = "unset"
    /\ asr_pipeline = "unset"
    /\ asr_ready_event = FALSE

\* Connection Focus has been admitted with token "a": code 100 is sent, the
\* ready-notification task has sent code 180 or waits for the event, and
\* handle_audio waits for the first message.
Admitted ==
    /\ FreshClient
    /\ connected_clients = <<Focus>>
    /\ conn = [c \in Conns |->
                 IF c = Focus
                 THEN [pc |-> "active", token |-> "a", outcome |-> "admitted",
                       notify |-> IF asr_ready_event THEN "sent" ELSE "waiting",
                       err |-> "none", recv |-> "ok"]
                 ELSE IdleConn]
    /\ sent = [c \in Conns |->
                 IF c = Focus
                 THEN IF asr_ready_event THEN <<Starting(c), Ready(c)>> ELSE <<Starting(c)>>
                 ELSE <<>>]
    /\ arrivals_left = 0
    /\ closes_left = 1

\* The clock feeds only the start and end times of the results, never a
\* decision: Spec leaves it at 0, TimedSpec lets it advance.
Init ==
    /\ TriggerIdle
    /\ FileIdle
    /\ NoPeer
    /\ Started
    /\ Admitted
    /\ frames_left = MaxFrames
    /\ configs_left = MaxConfigs
    /\ horizon = 0

InitTimed ==
    /\ TriggerIdle
    /\ FileIdle
    /\ NoPeer
    /\ Started
    /\ Admitted
    /\ frames_left = TimedFrames
    /\ configs_left = TimedConfigs
    /\ horizon = MaxTime

InitLive ==
    /\ TriggerIdle
    /\ FileIdle
    /\ NoPeer
    /\ Started
    /\ Admitted
    /\ frames_left = LiveFrames
    /\ configs_left = LiveConfigs
    /\ horizon = 0

\* The session is admitted while the startup task is still to run.
InitStartup ==
    /\ TriggerIdle
    /\ FileIdle
    /\ NoPeer
    /\ NotStarted
    /\ Admitted
    /\ frames_left = StartupFrames
    /\ configs_left = StartupConfigs
    /\ horizon = 0

\* The registry holds k sessions admitted earlier, of k different users, all
\* of them notified when there are any; further connections arrive.
InitAdmission ==
    /\ TriggerIdle
    /\ FileIdle
    /\ NoPeer
    /\ FreshClient
    /\ \E k \in {0, max_streaming_count - 1, max_streaming_count} :
          /\ IF k = 0 THEN NotStarted
             ELSE /\ vad_pipeline = "ok"
                  /\ asr_pipeline = "ok"
                  /\ asr_ready_event = TRUE
          /\ connected_clients = [i \in 1 .. k |-> i]
          /\ conn = [c \in Conns |->
                       IF c <= k
                       THEN [pc |-> "active", token |-> PriorToken(c),
                             outcome |-> "admitted", notify |-> "sent",
                             err |-> "none", recv |-> "ok"]
                       ELSE IdleConn]
          /\ sent = [c \in Conns |-> IF c <= k THEN <<Starting(c), Ready(c)>> ELSE <<>>]
    /\ frames_left = 0
    /\ configs_left = 0
    /\ horizon = 0
    /\ arrivals_left = MaxArrivals
    /\ closes_left = MaxDisconnects

----------------------------------------------------------------------------
\* Startup.

\* _initialize_pipelines_background: each factory call succeeds or raises,
\* and the ready event is set when the ASR pipeline was built.
InitializePipelines ==
    /\ LoopFree
    /\ vad_pipeline = "unset"
    /\ asr_pipeline = "unset"
    /\ \E v \in {"ok", "none"}, a \in {"ok", "none"} :
          /\ vad_pipeline' = v
          /\ asr_pipeline' = a
          /\ asr_ready_event' = (a = "ok")
    /\ UNCHANGED <<connected_clients, conn, sent, now, client, budget, fileasr, functions, peer>>

----------------------------------------------------------------------------
\* The connection handler, streaming_stt_recognization.

\* A handshake arrives and the handler awaits websocket.accept().
Connect(c, tok) ==
    /\ arrivals_left > 0
    /\ conn[c].pc = "idle"
    /\ \A d \in Conns : d < c => conn[d].pc # "idle"
    /\ conn' = [conn EXCEPT ![c].pc = "accepting", ![c].token = tok]
    /\ arrivals_left' = arrivals_left - 1
    /\ UNCHANGED <<process, connected_clients, sent, now, client,
                   frames_left, configs_left, horizon, closes_left, fileasr, functions, peer>>

\* _send_error_and_close: the send is only scheduled as a task; nothing is
\* awaited and the websocket is not closed before the handler returns.
Rejected(c, why) ==
    [conn EXCEPT ![c].pc = "returned", ![c].outcome = why, ![c].err = "scheduled"]

\* From the return of accept() to the next await: _validate_token, the
\* capacity test, the Client, the registry append and the send of code 100.
Admit(c) ==
    /\ conn[c].pc = "accepting"
    /\ IF conn[c].token = ""
       THEN /\ conn' = Rejected(c, "no_token")
            /\ UNCHANGED <<connected_clients, sent>>
       ELSE IF AtCapacity(Len(connected_clients))
       THEN /\ conn' = Rejected(c, "full")
            /\ UNCHANGED <<connected_clients, sent>>
       ELSE /\ connected_clients' = Append(connected_clients, c)
            /\ sent' = [sent EXCEPT ![c] = Append(@, Starting(c))]
            /\ conn' = [conn EXCEPT ![c].pc = "greeting", ![c].outcome = "admitted"]
    /\ UNCHANGED <<process, now, client, budget, fileasr, functions, peer>>

\* The send of code 100 returns; the ready-notification task is created and
\* handle_audio awaits its first message.
Greeted(c) ==
    /\ conn[c].pc = "greeting"
    /\ conn' = [conn EXCEPT ![c].pc = "active", ![c].notify = "created"]
    /\ UNCHANGED <<process, connected_clients, sent, now, client, budget, fileasr, functions, peer>>

\* The notification task sending code 180 without looking at the event.
NotifyReadyUngated(c) ==
    /\ LoopFree
    /\ conn[c].notify \in {"created", "waiting"}
    /\ conn[c].pc # "returned"
    /\ conn' = [conn EXCEPT ![c].notify = "sent"]
    /\ sent' = [sent EXCEPT ![c] = Append(@, Ready(c))]
    /\ UNCHANGED <<process, connected_clients, now, client, budget, fileasr, functions, peer>>

\* The notification task of the session is not ready to run: it has run, or
\* it waits for an event that is not set.
NotifyRan ==
    ~(asr_ready_event /\ conn[Focus].notify \in {"created", "waiting"})

\* _notify_ready_when_warmup_done, from its start or from the wake-up of
\* asr_ready_event.wait(); a send on a connection whose handler has returned
\* raises and the exception is logged.
NotifyReady(c) ==
    /\ LoopFree
    /\ \/ conn[c].notify = "created"
       \/ conn[c].notify = "waiting" /\ asr_ready_event
    /\ IF ~asr_ready_event
       THEN /\ conn' = [conn EXCEPT ![c].notify = "waiting"]
            /\ UNCHANGED sent
       ELSE IF conn[c].pc = "returned"
       THEN /\ conn' = [conn EXCEPT ![c].notify = "failed"]
            /\ UNCHANGED sent
       ELSE /\ conn' = [conn EXCEPT ![c].notify = "sent"]
            /\ sent' = [sent EXCEPT ![c] = Append(@, Ready(c))]
    /\ UNCHANGED <<process, connected_clients, now, client, budget, fileasr, functions, peer>>

\* The task _send_error_and_close scheduled runs after the handler returned:
\* whether the peer still gets the message is up to the server.
ErrorSend(c) ==
    /\ conn[c].err = "scheduled"
    /\ conn[c].pc = "returned"
    /\ \/ /\ conn' = [conn EXCEPT ![c].err = "delivered"]
          /\ sent' = [sent EXCEPT ![c] = Append(@, ErrorMsg)]
       \/ /\ conn' = [conn EXCEPT ![c].err = "dropped"]
          /\ UNCHANGED sent
    /\ UNCHANGED <<process, connected_clients, now, client, budget, fileasr, functions, peer>>

\* handle_audio's receive loop ends, by a disconnect frame, a receive failure
\* or an exception caught after the loop: the finally block removes the first
\* registry entry with the client's client_id and the handler returns.
Disconnect(c) ==
    /\ LoopFree
    /\ closes_left > 0
    /\ conn[c].pc = "active"
    /\ conn' = [conn EXCEPT ![c].pc = "returned"]
    /\ connected_clients' = RemoveFirst(connected_clients, conn[c].token)
    /\ closes_left' = closes_left - 1
    /\ UNCHANGED <<process, sent, now, client,
                   frames_left, configs_left, horizon, arrivals_left, fileasr, functions, peer>>

----------------------------------------------------------------------------
\* The receive loop of connection Focus, handle_audio.

\* process_audio extending the working buffer without clearing the pending
\* one.
process_audio_keeps_pending(buf) ==
    LET strat == strategies[Cur]
        st    == IF strat.start_time = NoTime THEN now' ELSE strat.start_time
    IN /\ connect_time' = IF connect_time = NoTime /\ buf # <<>> THEN now'
                          ELSE connect_time
       /\ IF ExceedsChunk(BytesOf(appended', buf), strat.chunk_length_ms, sampling_rate)
          THEN /\ scratch_buffer' = scratch_buffer \o buf
               /\ buffer' = buf
               /\ strategies' = [strategies EXCEPT ![Cur].processing_flag = TRUE,
                                                   ![Cur].start_time = NoTime]
               /\ tasks' = Append(tasks, NewTask(Cur, st, buf))
          ELSE /\ buffer' = buf
               /\ strategies' = [strategies EXCEPT ![Cur].start_time = st]
               /\ UNCHANGED <<scratch_buffer, tasks>>

\* SilenceAtEndOfChunk.process_audio on the pending buffer buf: the threshold
\* test, the promotion and the creation of the recognition task.  A raised
\* processing_flag is only logged.
process_audio(buf) ==
    LET strat == strategies[Cur]
        st    == IF strat.start_time = NoTime THEN now' ELSE strat.start_time
    IN /\ connect_time' = IF connect_time = NoTime /\ buf # <<>> THEN now'
                          ELSE connect_time
       /\ IF ExceedsChunk(BytesOf(appended', buf), strat.chunk_length_ms, sampling_rate)
          THEN /\ scratch_buffer' = scratch_buffer \o buf
               /\ buffer' = <<>>
               /\ strategies' = [strategies EXCEPT ![Cur].processing_flag = TRUE,
                                                   ![Cur].start_time = NoTime]
               /\ tasks' = Append(tasks, NewTask(Cur, st, buf))
          ELSE /\ buffer' = buf
               /\ strategies' = [strategies EXCEPT ![Cur].start_time = st]
               /\ UNCHANGED <<scratch_buffer, tasks>>

\* The receive loop giving every frame to the strategy, whatever the
\* pipelines are.
RecvAudioUnguarded(size) ==
    /\ LoopFree
    /\ conn[Focus].pc = "active"
    /\ frames_left > 0
    /\ frames_left' = frames_left - 1
    /\ now' \in now .. horizon
    /\ appended' = IF size > 0 THEN Append(appended, size) ELSE appended
    /\ process_audio(IF size > 0 THEN Append(buffer, Len(appended) + 1) ELSE buffer)
    /\ UNCHANGED <<process, connected_clients, conn, sent, sampling_rate,
                   file_counter, delivered, dropped, transcript,
                   configs_left, horizon, arrivals_left, closes_left, fileasr, functions, peer>>

\* The receive loop waiting for the recognition tasks before it takes the
\* next frame.
RecvAudioAwaitsTasks(size) ==
    /\ \A t \in DOMAIN tasks : tasks[t].pc \in {"done", "failed"}
    /\ conn[Focus].pc = "active"
    /\ frames_left > 0
    /\ frames_left' = frames_left - 1
    /\ now' \in now .. horizon
    /\ appended' = IF size > 0 THEN Append(appended, size) ELSE appended
    /\ LET buf == IF size > 0 THEN Append(buffer, Len(appended) + 1) ELSE buffer
       IN IF vad_pipeline # "ok" \/ asr_pipeline # "ok"
          THEN /\ sent' = [sent EXCEPT ![Focus] = Append(@, AudioAck)]
               /\ buffer' = buf
               /\ UNCHANGED <<scratch_buffer, connect_time, strategies, tasks>>
          ELSE /\ process_audio(buf)
               /\ UNCHANGED sent
    /\ UNCHANGED <<process, connected_clients, conn, sampling_rate, file_counter,
                   delivered, dropped, transcript,
                   configs_left, horizon, arrivals_left, closes_left, fileasr, functions, peer>>

\* A binary frame of size bytes: appended when non-empty, then either
\* acknowledged (a pipeline is None) or given to the strategy.
RecvAudio(size) ==
    /\ LoopFree
    /\ conn[Focus].pc = "active"
    /\ frames_left > 0
    /\ frames_left' = frames_left - 1
    /\ now' \in now .. horizon
    /\ appended' = IF size > 0 THEN Append(appended, size) ELSE appended
    /\ LET buf == IF size > 0 THEN Append(buffer, Len(appended) + 1) ELSE buffer
       IN IF vad_pipeline # "ok" \/ asr_pipeline # "ok"
          THEN /\ sent' = [sent EXCEPT ![Focus] = Append(@, AudioAck)]
               /\ buffer' = buf
               /\ UNCHANGED <<scratch_buffer, connect_time, strategies, tasks>>
          ELSE /\ process_audio(buf)
               /\ UNCHANGED sent
    /\ UNCHANGED <<process, connected_clients, conn, sampling_rate, file_counter,
                   delivered, dropped, transcript,
                   configs_left, horizon, arrivals_left, closes_left, fileasr, functions, peer>>

\* base64.b64encode of n bytes: four characters for every three bytes begun,
\* the last pad of them padding.
b64encode(n) == [chars |-> 4 * ((n + 2) \div 3), pad |-> (3 - (n % 3)) % 3]

\* base64.b64decode: the number of bytes in a padded base64 text.
b64decode(text) == (text.chars \div 4) * 3 - text.pad

\* A text message {"audio": base64 of size bytes}.  message_data.get("audio")
\* is the base64 text: when it is the empty string the message is logged as
\* unknown and the loop takes the next message; otherwise it is decoded and
\* appended, and the loop goes on as after a binary frame.
RecvAudioText(size) ==
    LET text == b64encode(size)
    IN IF text.chars = 0
       THEN /\ LoopFree
            /\ conn[Focus].pc = "active"
            /\ frames_left > 0
            /\ frames_left' = frames_left - 1
            /\ UNCHANGED <<process, connected_clients, conn, sent, now, client,
                           configs_left, horizon, arrivals_left, closes_left,
                           fileasr, functions, peer>>
       ELSE RecvAudio(b64decode(text))

\* A config update that rebuilds the session's buffers with the strategy.
RecvConfigDropsAudio(m) ==
    /\ LoopFree
    /\ conn[Focus].pc = "active"
    /\ configs_left > 0
    /\ configs_left' = configs_left - 1
    /\ strategies' = IF m.has_args
                     THEN Append(strategies,
                                 NewStrategy(m.chunk_length_ms, m.chunk_offset_ms))
                     ELSE strategies
    /\ buffer' = IF m.has_args THEN <<>> ELSE buffer
    /\ sampling_rate' = IF m.has_rate THEN m.sampleRate ELSE sampling_rate
    /\ sent' = [sent EXCEPT ![Focus] = Append(@, ConfigAck)]
    /\ UNCHANGED <<process, connected_clients, conn, now, appended,
                   scratch_buffer, connect_time, file_counter, tasks, delivered,
                   dropped, transcript,
                   frames_left, horizon, arrivals_left, closes_left, fileasr, functions, peer>>

\* A config message: Client.update_config builds a new strategy object when
\* processing_args are given, sampleRate overwrites the sampling rate, and
\* the message is acknowledged; the strategy is not run.
RecvConfig(m) ==
    /\ LoopFree
    /\ conn[Focus].pc = "active"
    /\ configs_left > 0
    /\ configs_left' = configs_left - 1
    /\ strategies' = IF m.has_args
                     THEN Append(strategies,
                                 NewStrategy(m.chunk_length_ms, m.chunk_offset_ms))
                     ELSE strategies
    /\ sampling_rate' = IF m.has_rate THEN m.sampleRate ELSE sampling_rate
    /\ sent' = [sent EXCEPT ![Focus] = Append(@, ConfigAck)]
    /\ UNCHANGED <<process, connected_clients, conn, now, appended, buffer,
                   scratch_buffer, connect_time, file_counter, tasks, delivered,
                   dropped, transcript,
                   frames_left, horizon, arrivals_left, closes_left, fileasr, functions, peer>>

\* A malformed text message k with handle_audio letting the exception out:
\* streaming_stt_recognization catches it and sends code 400.
RecvMalformedPropagates(k) ==
    /\ LoopFree
    /\ conn[Focus].pc = "active"
    /\ configs_left > 0
    /\ configs_left' = configs_left - 1
    /\ IF k \in SkippedMsgs
       THEN UNCHANGED <<conn, connected_clients, sent>>
       ELSE /\ conn' = [conn EXCEPT ![Focus].pc = "returned"]
            /\ connected_clients' = RemoveFirst(connected_clients, conn[Focus].token)
            /\ sent' = [sent EXCEPT ![Focus] = Append(@, ErrorMsg)]
    /\ UNCHANGED <<process, now, client,
                   frames_left, horizon, arrivals_left, closes_left, fileasr, functions, peer>>

\* A malformed text message k.  A skipped one changes nothing.  On a JSON
\* value that is not an object message_data.get raises AttributeError, on
\* processing_args without chunk_length_seconds SilenceAtEndOfChunk.__init__
\* raises TypeError inside update_config: either is caught after the loop,
\* the finally block runs and the handler returns.
RecvMalformed(k) ==
    /\ LoopFree
    /\ conn[Focus].pc = "active"
    /\ configs_left > 0
    /\ configs_left' = configs_left - 1
    /\ IF k \in SkippedMsgs
       THEN UNCHANGED <<conn, connected_clients>>
       ELSE /\ conn' = [conn EXCEPT ![Focus].pc = "returned"]
            /\ connected_clients' = RemoveFirst(connected_clients, conn[Focus].token)
    /\ UNCHANGED <<process, sent, now, client,
                   frames_left, horizon, arrivals_left, closes_left, fileasr, functions, peer>>

----------------------------------------------------------------------------
\* The recognition task, SilenceAtEndOfChunk.process_audio_async.  self is
\* the strategy object that created the task.

SetIdle(s) == [strategies EXCEPT ![s].processing_flag = FALSE]

\* A task that ended because its trigger test failed; audio is the working
\* buffer it left behind.
UntriggeredTask(tk, leftover) ==
    [pc |-> "done", strat |-> tk.strat, start_time |-> 0, stt |-> 0,
     promoted |-> tk.promoted, audio |-> leftover, cause |-> "untriggered"]

\* The trigger test fails: the task goes straight to its last statement,
\* which lowers the flag.
TriggerNotMet(t) ==
    /\ strategies' = SetIdle(tasks[t].strat)
    /\ tasks' = [tasks EXCEPT ![t] = UntriggeredTask(tasks[t], scratch_buffer)]
    /\ UNCHANGED <<buffer, scratch_buffer, delivered, dropped>>

\* From the start of the task to the await inside the Recognizer call, or to
\* the end of the task when the Recognizer is not called.
TaskStart(t) ==
    LET tk     == tasks[t]
        nbytes == BytesOf(appended, scratch_buffer)
        vad    == detect_activity(nbytes, sampling_rate)
    IN /\ LoopFree
       /\ tk.pc = "created"
       /\ IF connect_time = NoTime
          THEN /\ tasks' = [tasks EXCEPT ![t] = FailedTask(tk, "start")]
               /\ UNCHANGED <<buffer, scratch_buffer, strategies, delivered, dropped>>
          ELSE IF DetectRaises(nbytes, sampling_rate)
          THEN /\ tasks' = [tasks EXCEPT ![t] = FailedTask(tk, "detector")]
               /\ UNCHANGED <<buffer, scratch_buffer, strategies, delivered, dropped>>
          ELSE IF vad = <<>>
          THEN /\ scratch_buffer' = <<>>
               /\ buffer' = <<>>
               /\ dropped' = dropped \cup Range(scratch_buffer)
               /\ strategies' = SetIdle(tk.strat)
               /\ tasks' = [tasks EXCEPT ![t] = DoneTask(tasks[t])]
               /\ UNCHANGED delivered
          ELSE IF ShouldTranscribe(vad[1], nbytes,
                                   strategies[tk.strat].chunk_offset_ms, sampling_rate)
          THEN /\ delivered' = Append(delivered, scratch_buffer)
               /\ tasks' = [tasks EXCEPT
                              ![t].pc = "asr",
                              ![t].audio = scratch_buffer,
                              ![t].stt = IntTrunc(tk.start_time - connect_time)
                                             + last_start_time]
               /\ UNCHANGED <<buffer, scratch_buffer, strategies, dropped>>
          ELSE TriggerNotMet(t)
       /\ UNCHANGED <<process, connected_clients, conn, sent, now, appended,
                      sampling_rate, connect_time, file_counter, transcript, budget, fileasr, functions, peer>>

\* A task that ended because the Recognizer returned None; audio is what
\* the Recognizer was given.
NullTask(tk) ==
    [pc |-> "done", strat |-> tk.strat, start_time |-> 0, stt |-> 0,
     promoted |-> tk.promoted, audio |-> tk.audio, cause |-> "null"]

\* The Recognizer returns None and the task keeps the working buffer for
\* another attempt.
TaskTranscribedNoneKeepsAudio(t) ==
    /\ tasks[t].pc = "asr"
    /\ scratch_buffer' = scratch_buffer
    /\ file_counter' = file_counter + 1
    /\ strategies' = SetIdle(tasks[t].strat)
    /\ tasks' = [tasks EXCEPT ![t] = NullTask(tasks[t])]
    /\ UNCHANGED <<process, connected_clients, conn, sent, now, appended, buffer,
                   sampling_rate, connect_time, delivered, dropped, transcript,
                   budget, fileasr, functions, peer>>

\* The Recognizer returns None (no segment, or an exception it caught).
TaskTranscribedNone(t) ==
    /\ tasks[t].pc = "asr"
    /\ scratch_buffer' = <<>>
    /\ file_counter' = file_counter + 1
    /\ strategies' = SetIdle(tasks[t].strat)
    /\ tasks' = [tasks EXCEPT ![t] = NullTask(tasks[t])]
    /\ UNCHANGED <<process, connected_clients, conn, sent, now, appended, buffer,
                   sampling_rate, connect_time, delivered, dropped, transcript,
                   budget, fileasr, functions, peer>>

\* The Recognizer returns a text of duration d and the websocket takes the
\* Result whether or not the handler has returned.
TaskTranscribedSendsAfterClose(t, d) ==
    LET tk == tasks[t]
    IN /\ tk.pc = "asr"
       /\ now' \in now .. horizon
       /\ strategies' = [strategies EXCEPT ![tk.strat].start_time = now']
       /\ sent' = [sent EXCEPT
                     ![Focus] = Append(@, ResultMsg(Focus, t, tk.stt, d, tk.audio))]
       /\ tasks' = [tasks EXCEPT ![t].pc = "send"]
       /\ UNCHANGED <<process, connected_clients, conn, appended, buffer,
                      scratch_buffer, sampling_rate, connect_time, file_counter,
                      delivered, dropped, transcript, budget, fileasr, functions, peer>>

\* The Recognizer returns a text of duration d: the Result is built and
\* handed to the websocket, which raises when the handler has returned.
TaskTranscribed(t, d) ==
    LET tk == tasks[t]
    IN /\ tk.pc = "asr"
       /\ now' \in now .. horizon
       /\ strategies' = [strategies EXCEPT ![tk.strat].start_time = now']
       /\ IF conn[Focus].pc = "active"
          THEN /\ sent' = [sent EXCEPT
                             ![Focus] = Append(@, ResultMsg(Focus, t, tk.stt, d,
                                                             tk.audio))]
               /\ tasks' = [tasks EXCEPT ![t].pc = "send"]
          ELSE /\ tasks' = [tasks EXCEPT ![t] = FailedTask(tk, "send")]
               /\ UNCHANGED sent
       /\ UNCHANGED <<process, connected_clients, conn, appended, buffer,
                      scratch_buffer, sampling_rate, connect_time, file_counter,
                      delivered, dropped, transcript, budget, fileasr, functions, peer>>

\* The send returns: the payload joins the transcript, the working buffer is
\* cleared and the flag lowered.
TaskSent(t) ==
    /\ LoopFree
    /\ tasks[t].pc = "send"
    /\ transcript' = Append(transcript, t)
    /\ scratch_buffer' = <<>>
    /\ file_counter' = file_counter + 1
    /\ strategies' = SetIdle(tasks[t].strat)
    /\ tasks' = [tasks EXCEPT ![t] = DoneTask(tasks[t])]
    /\ UNCHANGED <<process, connected_clients, conn, sent, now, appended, buffer,
                   sampling_rate, connect_time, delivered, dropped, budget, fileasr, functions, peer>>

\* The send was under way when the handler returned and the connection
\* closed: it raises, and the exception ends the task.
TaskSendRaised(t) ==
    /\ LoopFree
    /\ tasks[t].pc = "send"
    /\ conn[Focus].pc = "returned"
    /\ tasks' = [tasks EXCEPT ![t] = FailedTask(tasks[t], "send")]
    /\ UNCHANGED <<process, connected_clients, conn, sent, now, appended, buffer,
                   scratch_buffer, sampling_rate, connect_time, file_counter,
                   strategies, delivered, dropped, transcript, budget, fileasr, functions, peer>>

----------------------------------------------------------------------------
\* The file service, file_asr.py.

\* verify_jwt_token: the payload of a token jwt.decode accepts (200 stands
\* for it), else HTTPException 401.
verify_jwt_token(cred) == IF cred = "valid" THEN 200 ELSE 401

\* The dependency that lets a request through without credentials.
_require_auth_optional(cred) ==
    IF cred \in NoBearerToken THEN 200 ELSE verify_jwt_token(cred)

\* _require_auth, which FastAPI resolves before it calls the endpoint:
\* HTTPException 401 without credentials, else verify_jwt_token.
_require_auth(cred) ==
    IF cred \in NoBearerToken THEN 401 ELSE verify_jwt_token(cred)

\* create_subtitle_task up to the await of the upload: the extension test
\* and the insertion of the row.
CreateSubtitleTask(cred, ext_ok) ==
    /\ requests_left > 0
    /\ requests_left' = requests_left - 1
    /\ request' = [endpoint |-> "create", cred |-> cred, id |-> 0]
    /\ IF _require_auth(cred) = 401
       THEN /\ response' = HttpResponse("create", 401)
            /\ UNCHANGED subtitle_tasks
       ELSE IF ~ext_ok
       THEN /\ response' = HttpResponse("create", 400)
            /\ UNCHANGED subtitle_tasks
       ELSE /\ subtitle_tasks' =
                   Append(subtitle_tasks,
                          [status |-> STATUS_UPLOAD_IN_PROGRESS, progress |-> 0,
                           pc |-> "upload"])
            /\ UNCHANGED response
    /\ UNCHANGED streaming

\* create_subtitle_task after the upload was read: the file is saved, the
\* row updated, the worker created and the id returned, or the save fails.
TaskUploaded(id, ok) ==
    /\ subtitle_tasks[id].pc = "upload"
    /\ IF ok
       THEN /\ subtitle_tasks' = [subtitle_tasks EXCEPT
                                    ![id].status = STATUS_AUDIO_WAITING,
                                    ![id].progress = 0,
                                    ![id].pc = "queued"]
            /\ response' = HttpResponse("create", 200)
       ELSE /\ subtitle_tasks' = [subtitle_tasks EXCEPT
                                    ![id].status = STATUS_FAILED,
                                    ![id].pc = "finished"]
            /\ response' = HttpResponse("create", 500)
    /\ UNCHANGED <<streaming, request, requests_left>>

\* _worker starts.
WorkerStarted(id) ==
    /\ subtitle_tasks[id].pc = "queued"
    /\ subtitle_tasks' = [subtitle_tasks EXCEPT
                            ![id].status = STATUS_AUDIO_PROCESSING,
                            ![id].progress = 5,
                            ![id].pc = "processing"]
    /\ UNCHANGED <<streaming, request, response, requests_left>>

\* _worker ending with the exception handler writing progress 100 as well.
WorkerFinishedFullProgress(id, ok) ==
    /\ subtitle_tasks[id].pc = "processing"
    /\ subtitle_tasks' = IF ok
                         THEN [subtitle_tasks EXCEPT
                                 ![id].status = STATUS_AUDIO_DONE,
                                 ![id].progress = 100,
                                 ![id].pc = "finished"]
                         ELSE [subtitle_tasks EXCEPT
                                 ![id].status = STATUS_FAILED,
                                 ![id].progress = 100,
                                 ![id].pc = "finished"]
    /\ UNCHANGED <<streaming, request, response, requests_left>>

\* _worker ends: the results are written, or an exception is recorded.
WorkerFinished(id, ok) ==
    /\ subtitle_tasks[id].pc = "processing"
    /\ subtitle_tasks' = IF ok
                         THEN [subtitle_tasks EXCEPT
                                 ![id].status = STATUS_AUDIO_DONE,
                                 ![id].progress = 100,
                                 ![id].pc = "finished"]
                         ELSE [subtitle_tasks EXCEPT
                                 ![id].status = STATUS_FAILED,
                                 ![id].pc = "finished"]
    /\ UNCHANGED <<streaming, request, response, requests_left>>

\* get_task_status, get_subtitle_types, get_subtitle_link and
\* download_subtitle: none of them writes to the table.
ReadTask(ep, cred, id) ==
    LET found == id \in DOMAIN subtitle_tasks
        code  == IF _require_auth(cred) = 401 THEN 401
                 ELSE IF ep = "link" THEN 200
                 ELSE IF ~found THEN 404
                 ELSE IF ep = "download"
                         /\ subtitle_tasks[id].status # STATUS_AUDIO_DONE THEN 404
                 ELSE 200
    IN /\ requests_left > 0
       /\ requests_left' = requests_left - 1
       /\ request' = [endpoint |-> ep, cred |-> cred, id |-> id]
       /\ response' = HttpResponse(ep, code)
       /\ UNCHANGED <<streaming, subtitle_tasks>>

----------------------------------------------------------------------------
\* Specifications.

ReceiveAudio    == \E size \in FrameSizes : RecvAudio(size)
ReceiveConfig   == \E m \in ConfigMsgs : RecvConfig(m)
ReceiveMalformed == \E k \in MalformedMsgs : RecvMalformed(k)
RecvDisconnect  == Disconnect(Focus)
NotifyFocus     == NotifyReady(Focus)
\* The event loop starting a recognition task ahead of the notification
\* task that asr_ready_event.set() made ready before it.
StartTaskBeforeNotify ==
    \E t \in DOMAIN tasks :
        /\ \A u \in 1 .. (t - 1) : tasks[u].pc # "created"
        /\ TaskStart(t)

\* The event loop runs ready tasks in the order in which they became ready:
\* the recognition tasks in the order of their creation, and all of them
\* after the notification task, which is created before handle_audio is
\* entered and woken by asr_ready_event.set() in the step that makes the
\* pipelines available.
StartTask ==
    \E t \in DOMAIN tasks :
        /\ NotifyRan
        /\ \A u \in 1 .. (t - 1) : tasks[u].pc # "created"
        /\ TaskStart(t)
TranscribeNone  == \E t \in DOMAIN tasks : TaskTranscribedNone(t)
TranscribeText  == \E t \in DOMAIN tasks, d \in Durations : TaskTranscribed(t, d)
SendReturns     == \E t \in DOMAIN tasks : TaskSent(t)
SendRaises      == \E t \in DOMAIN tasks : TaskSendRaised(t)

Next ==
    \/ ReceiveAudio
    \/ ReceiveConfig
    \/ ReceiveMalformed
    \/ RecvDisconnect
    \/ StartTask
    \/ TranscribeNone
    \/ TranscribeText
    \/ SendReturns
    \/ SendRaises

NextStartup ==
    \/ InitializePipelines
    \/ NotifyFocus
    \/ Next

Arrive      == \E c \in Conns, tok \in Tokens : Connect(c, tok)
Admission   == \E c \in Conns : Admit(c)
Greeting    == \E c \in Conns : Greeted(c)
Notify      == \E c \in Conns : NotifyReady(c)
RejectSend  == \E c \in Conns : ErrorSend(c)
Leave       == \E c \in Conns : Disconnect(c)

NextAdmission ==
    \/ InitializePipelines
    \/ Arrive
    \/ Admission
    \/ Greeting
    \/ Notify
    \/ RejectSend
    \/ Leave

ReceiveAudioText == \E size \in FrameSizes : RecvAudioText(size)

NextText ==
    \/ ReceiveAudioText
    \/ NextStartup

Spec == Init /\ [][Next]_vars

\* The session with audio arriving in text messages as well as in binary
\* frames, from before the startup task has run.
TextSpec == InitStartup /\ [][NextText]_vars

----------------------------------------------------------------------------
\* The receive call of handle_audio taken apart: conn[c].recv is "ok" while
\* websocket.receive() is awaited, "failed" when it has just raised an
\* exception that is neither WebSocketDisconnect nor RuntimeError, and
\* "closed" once the peer has closed the connection.  A message taken while
\* recv is "failed" or "closed" is one that a later call of receive()
\* returned, respectively one that was queued before the close.

\* websocket.receive() raises such an exception: it is logged and the loop
\* continues.
RecvRaises(c) ==
    /\ LoopFree
    /\ conn[c].pc = "active"
    /\ conn[c].recv = "ok"
    /\ conn' = [conn EXCEPT ![c].recv = "failed"]
    /\ UNCHANGED <<process, connected_clients, sent, now, client, budget,
                   fileasr, functions, peer>>

\* The loop is at its top again: the websocket is not DISCONNECTED, and
\* receive() is called once more.
LoopRetries(c) ==
    /\ LoopFree
    /\ conn[c].pc = "active"
    /\ conn[c].recv = "failed"
    /\ conn' = [conn EXCEPT ![c].recv = "ok"]
    /\ UNCHANGED <<process, connected_clients, sent, now, client, budget,
                   fileasr, functions, peer>>

\* The peer closes the connection.
ConnectionCloses(c) ==
    /\ closes_left > 0
    /\ conn[c].pc = "active"
    /\ conn[c].recv # "closed"
    /\ conn' = [conn EXCEPT ![c].recv = "closed"]
    /\ closes_left' = closes_left - 1
    /\ UNCHANGED <<process, connected_clients, sent, now, client,
                   frames_left, configs_left, horizon, arrivals_left, fileasr,
                   functions, peer>>

\* The loop finds the connection closed (the state test at its top, a
\* disconnect message, WebSocketDisconnect or RuntimeError): break, and the
\* finally block.
LoopEnds(c) ==
    /\ LoopFree
    /\ conn[c].pc = "active"
    /\ conn[c].recv = "closed"
    /\ conn' = [conn EXCEPT ![c].pc = "returned"]
    /\ connected_clients' = RemoveFirst(connected_clients, conn[c].token)
    /\ UNCHANGED <<process, sent, now, client, budget, fileasr, functions, peer>>

ReceiveFails == RecvRaises(Focus)
LoopRetry    == LoopRetries(Focus)
PeerCloses   == ConnectionCloses(Focus)
LoopEnd      == LoopEnds(Focus)

NextReceive ==
    \/ ReceiveFails
    \/ LoopRetry
    \/ PeerCloses
    \/ LoopEnd
    \/ Next

\* The session with its receive call taken apart; the event loop runs every
\* task that is ready, the receive loop included.
ReceiveSpec ==
    /\ InitLive
    /\ [][NextReceive]_vars
    /\ WF_vars(StartTask)
    /\ WF_vars(LoopRetry)
    /\ WF_vars(LoopEnd)

----------------------------------------------------------------------------
\* A second session of the same user, admitted on connection Peer: the same
\* handle_audio, Client and SilenceAtEndOfChunk code running on another
\* Client object.

PeerFrames == 2
PeerConfigs == 1

\* SilenceAtEndOfChunk.process_audio of the second session: its Client p
\* after the call.
PeerProcessAudio(p) ==
    IF ExceedsChunk(BytesOf(p.appended, p.buffer), p.chunk_length_ms, p.sampling_rate)
    THEN [p EXCEPT !.scratch_buffer = @ \o p.buffer,
                   !.buffer = <<>>,
                   !.processing_flag = TRUE,
                   !.tasks = Append(@, TRUE)]
    ELSE p

\* Client.append_audio_data of the second session, for a frame with bytes.
PeerAppend(size) ==
    IF size > 0
    THEN [peer EXCEPT !.appended = Append(@, size),
                      !.buffer = Append(@, Len(peer.appended) + 1)]
    ELSE peer

\* The receive loop of the second session with the two Clients sharing one
\* working buffer and one strategy: what it promotes lands in the working
\* buffer of the first session and raises the flag of its strategy.
PeerRecvAudioSharedWorking(size) ==
    /\ conn[Peer].pc = "active"
    /\ peer.frames_left > 0
    /\ LET p == [PeerAppend(size) EXCEPT !.frames_left = @ - 1]
           q == PeerProcessAudio(p)
       IN IF vad_pipeline # "ok" \/ asr_pipeline # "ok"
          THEN /\ sent' = [sent EXCEPT ![Peer] = Append(@, AudioAck)]
               /\ peer' = p
               /\ UNCHANGED <<scratch_buffer, strategies>>
          ELSE /\ peer' = [q EXCEPT !.scratch_buffer = peer.scratch_buffer]
               /\ scratch_buffer' =
                     IF q.buffer = p.buffer THEN scratch_buffer
                     ELSE scratch_buffer \o [i \in DOMAIN p.buffer |-> 0]
               /\ strategies' =
                     IF q.buffer = p.buffer THEN strategies
                     ELSE [strategies EXCEPT ![Cur].processing_flag = TRUE]
               /\ UNCHANGED sent
    /\ UNCHANGED <<process, connected_clients, conn, now, appended, buffer,
                   sampling_rate, connect_time, file_counter, tasks,
                   delivered, dropped, transcript, budget, fileasr, functions>>

\* The receive loop of the second session takes a binary frame: appended
\* when non-empty, then acknowledged (a pipeline is None) or given to the
\* session's own strategy.
PeerRecvAudio(size) ==
    /\ conn[Peer].pc = "active"
    /\ peer.frames_left > 0
    /\ LET p == [PeerAppend(size) EXCEPT !.frames_left = @ - 1]
       IN IF vad_pipeline # "ok" \/ asr_pipeline # "ok"
          THEN /\ sent' = [sent EXCEPT ![Peer] = Append(@, AudioAck)]
               /\ peer' = p
          ELSE /\ peer' = PeerProcessAudio(p)
               /\ UNCHANGED sent
    /\ UNCHANGED <<process, connected_clients, conn, now, client, budget,
                   fileasr, functions>>

\* The receive loop of the second session takes a config message:
\* update_config replaces the strategy object, whose flag starts lowered.
PeerRecvConfig(m) ==
    /\ conn[Peer].pc = "active"
    /\ peer.configs_left > 0
    /\ peer' = [peer EXCEPT
                  !.configs_left = @ - 1,
                  !.chunk_length_ms = IF m.has_args THEN m.chunk_length_ms ELSE @,
                  !.processing_flag = IF m.has_args THEN FALSE ELSE @,
                  !.tasks = IF m.has_args THEN [i \in DOMAIN @ |-> FALSE] ELSE @,
                  !.sampling_rate = IF m.has_rate THEN m.sampleRate ELSE @]
    /\ sent' = [sent EXCEPT ![Peer] = Append(@, ConfigAck)]
    /\ UNCHANGED <<process, connected_clients, conn, now, client, budget,
                   fileasr, functions>>

\* The oldest recognition task of the second session runs to its end after a
\* Recognizer call: the working buffer is cleared, the flag of the task's
\* strategy lowered, and a Result is sent when there is one and the
\* connection still takes it.
PeerTaskEnds(result) ==
    /\ peer.tasks # <<>>
    /\ peer' = [peer EXCEPT
                  !.scratch_buffer = <<>>,
                  !.processing_flag = IF Head(peer.tasks) THEN FALSE ELSE @,
                  !.tasks = Tail(@)]
    /\ sent' = IF result /\ conn[Peer].pc = "active"
               THEN [sent EXCEPT ![Peer] = Append(@, ResultMsg(Peer, 0, 0, 0, <<>>))]
               ELSE sent
    /\ UNCHANGED <<process, connected_clients, conn, now, client, budget,
                   fileasr, functions>>

PeerAudio  == \E size \in FrameSizes : PeerRecvAudio(size)
PeerConfig == \E m \in ConfigMsgs : PeerRecvConfig(m)
PeerTask   == \E result \in BOOLEAN : PeerTaskEnds(result)
PeerLeaves == Disconnect(Peer)

\* Two sessions of user "a" are admitted, after startup.
InitPair ==
    /\ TriggerIdle
    /\ FileIdle
    /\ Started
    /\ FreshClient
    /\ peer = FreshPeer(PeerFrames, PeerConfigs)
    /\ connected_clients = <<Focus, Peer>>
    /\ conn = [c \in Conns |->
                 IF c \in {Focus, Peer}
                 THEN [pc |-> "active", token |-> "a", outcome |-> "admitted",
                       notify |-> IF asr_ready_event THEN "sent" ELSE "waiting",
                       err |-> "none", recv |-> "ok"]
                 ELSE IdleConn]
    /\ sent = [c \in Conns |->
                 IF c \in {Focus, Peer}
                 THEN IF asr_ready_event THEN <<Starting(c), Ready(c)>>
                      ELSE <<Starting(c)>>
                 ELSE <<>>]
    /\ frames_left = LiveFrames
    /\ configs_left = LiveConfigs
    /\ horizon = 0
    /\ arrivals_left = 0
    /\ closes_left = Cardinality({Focus, Peer})

NextPair ==
    \/ PeerAudio
    \/ PeerConfig
    \/ PeerTask
    \/ PeerLeaves
    \/ Next

PairSpec == InitPair /\ [][NextPair]_vars

TimedSpec == InitTimed /\ [][Next]_vars

FairSpec == InitLive /\ [][Next]_vars /\ WF_vars(StartTask)

StartupSpec == InitStartup /\ [][NextStartup]_vars

AdmissionSpec == InitAdmission /\ [][NextAdmission]_vars

\* The process has just started: no session yet, the startup task still to
\* run, connections arriving.
InitEmpty ==
    /\ TriggerIdle
    /\ FileIdle
    /\ NoPeer
    /\ FreshClient
    /\ NotStarted
    /\ connected_clients = <<>>
    /\ conn = [c \in Conns |-> IdleConn]
    /\ sent = [c \in Conns |-> <<>>]
    /\ frames_left = 0
    /\ configs_left = 0
    /\ horizon = 0
    /\ arrivals_left = MaxArrivals
    /\ closes_left = MaxDisconnects

\* The event loop runs every handler and every notification task that is
\* ready to run.
FairAdmissionSpec ==
    /\ InitEmpty
    /\ [][NextAdmission]_vars
    /\ WF_vars(Greeting)
    /\ WF_vars(Notify)

\* The file service has started with an empty table; the streaming service
\* is not part of the run.
InitFile ==
    /\ TriggerIdle
    /\ NoPeer
    /\ FreshClient
    /\ NotStarted
    /\ connected_clients = <<>>
    /\ conn = [c \in Conns |-> IdleConn]
    /\ sent = [c \in Conns |-> <<>>]
    /\ frames_left = 0
    /\ configs_left = 0
    /\ horizon = 0
    /\ arrivals_left = 0
    /\ closes_left = 0
    /\ subtitle_tasks = <<>>
    /\ request = NoRequest
    /\ response = HttpResponse("none", 0)
    /\ requests_left = MaxRequests

CreateTask   == \E cred \in Credentials, ext_ok \in BOOLEAN :
                   CreateSubtitleTask(cred, ext_ok)
Upload       == \E id \in DOMAIN subtitle_tasks, ok \in BOOLEAN : TaskUploaded(id, ok)
WorkerStarts == \E id \in DOMAIN subtitle_tasks : WorkerStarted(id)
WorkerEnds   == \E id \in DOMAIN subtitle_tasks, ok \in BOOLEAN : WorkerFinished(id, ok)
Read         == \E ep \in ReadEndpoints, cred \in Credentials, id \in TaskIds :
                   ReadTask(ep, cred, id)

NextFile ==
    \/ CreateTask
    \/ Upload
    \/ WorkerStarts
    \/ WorkerEnds
    \/ Read

FileSpec == InitFile /\ [][NextFile]_vars

\* The bytes that ms milliseconds of audio take at a sampling rate.
BytesOfMs(ms, rate) == (ms * rate * samples_width) \div 1000

\* A task is at its trigger test with a non-empty detector result: a working
\* buffer, the end of the last interval within it, a chunk offset and a
\* sampling rate.
InitTrigger ==
    /\ FreshClient
    /\ NotStarted
    /\ FileIdle
    /\ NoPeer
    /\ connected_clients = <<>>
    /\ conn = [c \in Conns |-> IdleConn]
    /\ sent = [c \in Conns |-> <<>>]
    /\ frames_left = 0
    /\ configs_left = 0
    /\ horizon = 0
    /\ arrivals_left = 0
    /\ closes_left = 0
    /\ \E rate \in TriggerRates, w \in WorkingMs, e \in IntervalEndMs,
          off \in OffsetsMs :
          /\ e <= w
          /\ trigger_in = [nbytes |-> BytesOfMs(w, rate),
                           vad_end |-> BytesOfMs(e, rate),
                           chunk_offset_ms |-> off, rate |-> rate]
    /\ trigger_out = "pending"

\* The trigger test of process_audio_async on trigger_in.
EvaluateTrigger ==
    /\ trigger_out = "pending"
    /\ trigger_out' = IF ShouldTranscribe(trigger_in.vad_end, trigger_in.nbytes,
                                          trigger_in.chunk_offset_ms, trigger_in.rate)
                      THEN "called" ELSE "skipped"
    /\ UNCHANGED <<process, connected_clients, conn, sent, now, client, budget,
                   fileasr, trigger_in, peer>>

NextTrigger == EvaluateTrigger

TriggerSpec == InitTrigger /\ [][NextTrigger]_vars

----------------------------------------------------------------------------
\* Properties.

Outstanding(t) == tasks[t].pc \in {"created", "asr", "send"}

IsResult(i) == sent[Focus][i].kind = "result"

\* Bytes of working audio of which the task's strategy makes the cutoff.
OverSlackAt(t, audio) ==
    OverSlack(BytesOf(appended, audio), strategies[tasks[t].strat].chunk_offset_ms,
              sampling_rate)

\* C1: at most one recognition task of the session is outstanding (created
\* and not yet finished) in every reachable state.
C1_AtMostOneTaskInFlight ==
    \A t, u \in DOMAIN tasks : Outstanding(t) /\ Outstanding(u) => t = u

\* The Recognizer calls whose audio holds frame f.
Deliveries(f) == {i \in DOMAIN delivered : f \in Range(delivered[i])}

\* Frame f is held somewhere: pending, in the working buffer, given to the
\* Recognizer, or discarded with a working buffer the detector found empty.
Kept(f) ==
    \/ f \in Range(buffer)
    \/ f \in Range(scratch_buffer)
    \/ Deliveries(f) # {}
    \/ f \in dropped

\* C2: every appended frame is pending, in the working buffer, delivered to
\* the Recognizer or discarded as silence, and none is delivered to the
\* Recognizer by more than one recognition attempt: no byte is lost and none
\* is delivered twice.
C2_ByteConservation ==
    \A f \in DOMAIN appended : Kept(f) /\ Cardinality(Deliveries(f)) <= 1

\* C3: of two Result messages of the session, the one emitted first has a
\* startTime less than or equal to that of the one emitted second.
C3_StartTimeNonDecreasing ==
    \A i, j \in DOMAIN sent[Focus] :
        (i < j /\ IsResult(i) /\ IsResult(j))
            => sent[Focus][i].startTime <= sent[Focus][j].startTime

\* C4: Results are emitted in the order their attempts promoted audio, no
\* two Results cover the same audio, and no Result covers audio promoted by
\* a later attempt.
C4_ResultsInCaptureOrder ==
    \A i \in DOMAIN sent[Focus] :
        IsResult(i) =>
            /\ \A u \in DOMAIN tasks :
                   u > sent[Focus][i].task =>
                       Range(sent[Focus][i].audio) \cap Range(tasks[u].promoted) = {}
            /\ \A j \in DOMAIN sent[Focus] :
                   (i < j /\ IsResult(j)) =>
                       /\ sent[Focus][i].task < sent[Focus][j].task
                       /\ Range(sent[Focus][i].audio)
                              \cap Range(sent[Focus][j].audio) = {}

\* A task that starts while the detector reports one interval ending at the
\* end of the working buffer and the cutoff is over 2 seconds calls the
\* Recognizer.
StartOverSlackCalls ==
    \A t \in DOMAIN tasks :
        ( /\ tasks[t].pc = "created"
          /\ tasks'[t].pc # "created"
          /\ connect_time # NoTime
          /\ ~DetectRaises(BytesOf(appended, scratch_buffer), sampling_rate)
          /\ OverSlackAt(t, scratch_buffer) )
            => /\ tasks'[t].pc = "asr"
               /\ delivered' = Append(delivered, scratch_buffer)

C6_EmptyDetectorKeepsPending ==
    [][\A t \in DOMAIN tasks :
          ( /\ tasks[t].pc = "created"
            /\ tasks'[t].pc = "done"
            /\ detect_activity(BytesOf(appended, scratch_buffer), sampling_rate)
                   = <<>> )
              => /\ scratch_buffer' = <<>>
                 /\ delivered' = delivered
                 /\ sent' = sent
                 /\ ~strategies'[tasks[t].strat].processing_flag
                 /\ buffer' = buffer]_vars

\* C7: when the detector raises in a task, the task ends with the working
\* buffer cleared and the flag of its strategy lowered.
C7_DetectorFailureReturnsToIdle ==
    [][\A t \in DOMAIN tasks :
          ( /\ tasks[t].pc = "created"
            /\ tasks'[t].pc = "failed"
            /\ tasks'[t].cause = "detector" )
              => /\ scratch_buffer' = <<>>
                 /\ ~strategies'[tasks[t].strat].processing_flag]_vars

\* The connection's handler and every task it left behind have finished.
Settled(c) ==
    /\ conn[c].pc = "returned"
    /\ conn[c].err # "scheduled"

Received(c, code) == \E i \in DOMAIN sent[c] : sent[c][i].code = code

InRegistry(c) == \E i \in DOMAIN connected_clients : connected_clients[i] = c

\* C8: the registry never holds more than max_streaming_count sessions.
C8_RegistryBounded == Len(connected_clients) <= max_streaming_count

\* The registry is full and a further connection has been turned away.
C8_FullAndTurnedAway ==
    /\ Len(connected_clients) = max_streaming_count
    /\ \E c \in Conns : conn[c].outcome = "full"

\* C9: a connection with a token that arrived while the registry was full
\* has received a message with code 400 once its handler and the send it
\* scheduled are over; it never enters the registry and gets no code 100.
C9_FullRejectionReceived ==
    \A c \in Conns :
        conn[c].outcome = "full" =>
            /\ ~InRegistry(c)
            /\ ~Received(c, 100)
            /\ Settled(c) => Received(c, 400)

\* C10: a connection without a token has received a rejection message once
\* its handler and the send it scheduled are over; it never enters the
\* registry and gets neither code 100 nor code 180.
C10_NoTokenRejectionReceived ==
    \A c \in Conns :
        conn[c].outcome = "no_token" =>
            /\ ~InRegistry(c)
            /\ ~Received(c, 100)
            /\ ~Received(c, 180)
            /\ Settled(c) => Received(c, 400)

\* What holds of every connection turned away, whichever the reason: no
\* session, no code 100 or 180, and nothing but code 400 is ever sent.
RejectedGetsNoSession ==
    \A c \in Conns :
        conn[c].outcome \in {"full", "no_token"} =>
            /\ ~InRegistry(c)
            /\ \A i \in DOMAIN sent[c] : sent[c][i].code = 400

\* The messages with the given code sent on connection c.
CodeCount(c, code) ==
    Cardinality({i \in DOMAIN sent[c] : sent[c][i].code = code})

\* Code 180 is sent at most once per connection, only to admitted ones and
\* only while the ready event is set.
ReadyAtMostOnceAfterGate ==
    \A c \in Conns :
        /\ CodeCount(c, 180) <= 1
        /\ Received(c, 180) => (asr_ready_event /\ conn[c].outcome = "admitted")

\* C11: every admitted session gets code 180 at most once and never before
\* the ready event is set, and once the event is set an admitted session
\* eventually has received it unless its connection ended first.
C11_ReadyOnceAfterGate ==
    /\ []ReadyAtMostOnceAfterGate
    /\ \A c \in 1 .. MaxArrivals :
           (conn[c].outcome = "admitted" /\ asr_ready_event)
               ~> (CodeCount(c, 180) = 1 \/ conn[c].pc = "returned")

\* The event has fired: one session has its code 180 and another, admitted
\* before the event was set, is about to be woken.
C11_NotifiedAndWaiting ==
    \E c, d \in Conns :
        /\ asr_ready_event
        /\ conn[c].notify = "sent"
        /\ CodeCount(c, 180) = 1
        /\ conn[d].notify = "waiting"
        /\ conn[d].pc = "active"

\* C12: every message sent on a connection after its code 100 notification
\* carries the id that notification carried.
C12_SameCorrelationId ==
    \A c \in Conns :
        \A i, j \in DOMAIN sent[c] :
            (i < j /\ sent[c][i].code = 100) => sent[c][j].id = sent[c][i].id

\* The messages that do carry an id (code 100, code 180, Results) carry the
\* connection's own.
IdBearingMessagesAgree ==
    \A c \in Conns :
        \A i \in DOMAIN sent[c] :
            sent[c][i].kind \in {"starting", "ready", "result"} => sent[c][i].id = c

\* The detector or the recognizer is None.
Unavailable == vad_pipeline # "ok" \/ asr_pipeline # "ok"

\* C13: an audio frame received while a pipeline is unavailable is appended
\* to the pending buffer (when it has bytes) and acknowledged, the connection
\* stays open and registered, and the strategy is not run: nothing is
\* promoted, no task is created, the Recognizer is not called.
C13_UnavailableOnlyAcknowledges ==
    [][(Unavailable /\ frames_left' # frames_left) =>
          /\ \E size \in FrameSizes :
                /\ appended' = IF size > 0 THEN Append(appended, size) ELSE appended
                /\ buffer' = IF size > 0 THEN Append(buffer, Len(appended) + 1)
                             ELSE buffer
          /\ sent'[Focus] = Append(sent[Focus], AudioAck)
          /\ conn'[Focus].pc = "active"
          /\ connected_clients' = connected_clients
          /\ UNCHANGED <<scratch_buffer, tasks, delivered, strategies,
                         connect_time>>]_vars

\* A frame longer than the chunk length was received while a pipeline was
\* unavailable: it is pending and acknowledged, and no task exists.
C13_LongFrameOnlyPending ==
    /\ Unavailable
    /\ buffer # <<>>
    /\ ExceedsChunk(BytesOf(appended, buffer), strategies[Cur].chunk_length_ms,
                    sampling_rate)
    /\ sent[Focus][Len(sent[Focus])] = AudioAck
    /\ tasks = <<>>
    /\ conn[Focus].pc = "active"

\* A recognition task of the session is outstanding.
Processing == \E t \in DOMAIN tasks : Outstanding(t)

\* The receive loop is at its await with messages left to take and the
\* event loop is free to run it.
LoopCanReceive ==
    /\ conn[Focus].pc = "active"
    /\ LoopFree
    /\ frames_left > 0
    /\ configs_left > 0

\* A frame with bytes received while a task is outstanding goes through the
\* pending buffer: after the step the pending buffer ends with it, or the
\* same call of the strategy has promoted the whole pending buffer with it.
ReceivedWhileProcessingIsPending ==
    (Processing /\ Len(appended') = Len(appended) + 1) =>
        LET buf == Append(buffer, Len(appended'))
        IN \/ buffer' = buf /\ scratch_buffer' = scratch_buffer
           \/ buffer' = <<>> /\ scratch_buffer' = scratch_buffer \o buf

C15_ConfigKeepsBuffers ==
    [][configs_left' # configs_left =>
          /\ buffer' = buffer
          /\ scratch_buffer' = scratch_buffer
          /\ appended' = appended]_vars

\* The strategy has been rebuilt while audio was pending and audio was in
\* the working buffer, and both are still there.
C15_RebuiltWithAudioBuffered ==
    /\ Len(strategies) > 1
    /\ configs_left < MaxConfigs
    /\ sent[Focus][Len(sent[Focus])] = ConfigAck
    /\ buffer # <<>>
    /\ scratch_buffer # <<>>

\* The registry after the release of connection c's session (the removal
\* loop of handle_audio's finally block) applied to registry q.
Release(q, c) == RemoveFirst(q, conn[c].token)

\* C16: releasing a session twice leaves the registry as releasing it once
\* does, and releasing a session that is not in the registry changes nothing.
C16_ReleaseIdempotent ==
    \A c \in Conns :
        conn[c].outcome = "admitted" =>
            /\ Release(Release(connected_clients, c), c)
                   = Release(connected_clients, c)
            /\ ~InRegistry(c) => Release(connected_clients, c) = connected_clients

\* C17: when a session's receive loop ends and the connection handler
\* returns, the session is no longer in the registry.
C17_DeregisteredOnReturn ==
    [][\A c \in Conns :
          conn[c].pc = "active" /\ conn'[c].pc = "returned"
              => ~InRegistry(c)']_vars

Closed == conn[Focus].pc = "returned"

\* A Result of task t is among the messages sent on the connection.
ResultOf(t) ==
    \E i \in 1 .. Len(sent[Focus]) : IsResult(i) /\ sent[Focus][i].task = t

Recorded(t) == \E i \in 1 .. Len(transcript) : transcript[i] = t

\* The Recognizer call of task t has not returned yet.
Unsent(t) == tasks[t].pc \in {"created", "asr"}

\* The closing of the session leaves every task as it is.
CloseKeepsTasks ==
    conn[Focus].pc = "active" /\ conn'[Focus].pc = "returned" => tasks' = tasks

MalformedReceived ==
    configs_left' < configs_left /\ sent'[Focus] = sent[Focus]

\* C19: after a malformed control message the receive loop goes on and the
\* session is still in the registry.
C19_MalformedIsSkipped ==
    [][MalformedReceived =>
          conn'[Focus].pc = "active" /\ InRegistry(Focus)']_vars

C21_EndsWithFlagLowered ==
    [][\A t \in DOMAIN tasks :
          /\ Outstanding(t)
          /\ \/ tasks'[t].pc = "done"
             \/ tasks'[t].pc = "failed" /\ tasks'[t].cause = "send"
          => ~strategies'[tasks[t].strat].processing_flag]_vars

\* C22: while a recognition task of the session is outstanding, the receipt
\* of an audio frame leaves the working buffer as it was.
C22_LoopKeepsWorkingBuffer ==
    [][(frames_left' < frames_left /\ \E t \in DOMAIN tasks : Outstanding(t))
          => scratch_buffer' = scratch_buffer]_vars

\* Milliseconds of audio in n bytes at the sampling rate of trigger_in.
MsOf(n) == (n * 1000) \div (trigger_in.rate * samples_width)

\* cutoff = workingBytes / (sampleRate * sampleWidth) - chunkOffsetSeconds,
\* in milliseconds.
CutoffMs == MsOf(trigger_in.nbytes) - trigger_in.chunk_offset_ms

\* C23: with a non-empty detector result the Recognizer is called if and
\* only if the last interval ends strictly before the cutoff or the cutoff
\* is strictly greater than 2 seconds; it is called for a working buffer of
\* 2.0 s with an interval ending at 1.8 s and a chunk offset of 0.1 s.
C23_CalledIffTriggered ==
    trigger_out \in {"called", "skipped"} =>
        /\ trigger_out = "called"
               <=> (MsOf(trigger_in.vad_end) < CutoffMs \/ CutoffMs > 2 * 1000)
        /\ ( /\ MsOf(trigger_in.nbytes) = 2000
             /\ MsOf(trigger_in.vad_end) = 1800
             /\ trigger_in.chunk_offset_ms = 100 ) => trigger_out = "called"

C23_ScenarioACalled ==
    /\ trigger_in = [nbytes |-> 64000, vad_end |-> 57600, chunk_offset_ms |-> 100,
                     rate |-> 16000]
    /\ trigger_out = "called"

\* The frames of q are in the order of their arrival.
InArrivalOrder(q) == \A i, j \in DOMAIN q : i < j => q[i] < q[j]

\* C24: a task whose trigger test fails calls no Recognizer, leaves both
\* buffers as they are and lowers the flag; the audio it leaves in the
\* working buffer stays there, in the order of arrival and before the audio
\* of later promotions, until a Recognizer call is given it.
C24_LeftoverIsKept ==
    /\ [][\A t \in DOMAIN tasks :
             (tasks[t].pc = "created" /\ tasks'[t].cause = "untriggered") =>
                 /\ delivered' = delivered
                 /\ scratch_buffer' = scratch_buffer
                 /\ buffer' = buffer
                 /\ ~strategies'[tasks[t].strat].processing_flag]_vars
    /\ [][Len(tasks') > Len(tasks) =>
             /\ scratch_buffer' = scratch_buffer \o tasks'[Len(tasks')].promoted
             /\ buffer' = <<>>]_vars
    /\ [](/\ InArrivalOrder(scratch_buffer)
          /\ \A t \in DOMAIN tasks :
                tasks[t].cause = "untriggered" =>
                    \A f \in Range(tasks[t].audio) :
                        f \in Range(scratch_buffer) \/ Deliveries(f) # {})

PendingAfterAppend ==
    IF Len(appended') > Len(appended) THEN Append(buffer, Len(appended'))
    ELSE buffer

\* C26: the receipt of an audio frame promotes the pending buffer and starts
\* a recognition task only if the strategy's flag is lowered and the pending
\* bytes exceed chunk_length_seconds * sampling_rate * samples_width; when
\* they do not, the pending buffer holds what was appended, the working
\* buffer is unchanged and no task is created.
C26_PromotionOnlyWhenIdleAndOver ==
    /\ [][Len(tasks') > Len(tasks) =>
             /\ ~strategies[Cur].processing_flag
             /\ ExceedsChunk(BytesOf(appended', PendingAfterAppend),
                             strategies[Cur].chunk_length_ms, sampling_rate)]_vars
    /\ [][(/\ frames_left' < frames_left
           /\ ~ExceedsChunk(BytesOf(appended', PendingAfterAppend),
                            strategies[Cur].chunk_length_ms, sampling_rate)) =>
             /\ buffer' = PendingAfterAppend
             /\ scratch_buffer' = scratch_buffer
             /\ tasks' = tasks]_vars

\* C27: a promotion takes the working buffer to its previous content
\* followed by exactly what was pending, and empties the pending buffer, in
\* one step of the receive loop: no state has a frame both pending and in
\* the working buffer, which a state between the move and the clear would.
C27_PromotionIsAtomic ==
    /\ [][Len(tasks') > Len(tasks) =>
             /\ scratch_buffer' = scratch_buffer \o PendingAfterAppend
             /\ tasks'[Len(tasks')].promoted = PendingAfterAppend
             /\ buffer' = <<>>]_vars
    /\ [](Range(buffer) \cap Range(scratch_buffer) = {})

\* A promotion of two pending frames onto a working buffer that held one.
C27_PromotedOntoWorking ==
    \E t \in DOMAIN tasks :
        /\ Len(tasks[t].promoted) = 2
        /\ Len(scratch_buffer) = 3
        /\ SubSeq(scratch_buffer, 2, 3) = tasks[t].promoted
        /\ buffer = <<>>

\* C28: once a Result has been sent, Client.last_start_time, the offset
\* added to the start time of the next Result, is the end time of the last
\* Result sent.
C28_OffsetAdvancesWithResult ==
    \A i \in DOMAIN sent[Focus] :
        (IsResult(i) /\ \A j \in DOMAIN sent[Focus] : j > i => ~IsResult(j))
            => last_start_time = sent[Focus][i].endTime

\* C29: the sampling rate of the session is never changed by anything the
\* session receives (its sample width, samples_width, is assigned nowhere
\* after Client.__init__).
C29_SamplingRateFixed == [][sampling_rate' = sampling_rate]_vars

\* C30: the receipt of a text message {"audio": base64 of B} is a step that
\* the receipt of a binary frame with the bytes B can take too: the same
\* bytes appended, the same acknowledgement or the same call of the strategy.
C30_TextFrameAsBinaryFrame ==
    [][\A size \in FrameSizes : RecvAudioText(size) => RecvAudio(size)]_vars

\* What belongs to the first session: its Client with its strategies and
\* tasks, its handler and the messages sent on its connection.
OfFocus == <<client, conn[Focus], sent[Focus]>>

\* What belongs to the second session.
OfPeer == <<peer, conn[Peer], sent[Peer]>>

ErrorCodes == {400, 401, 408}

C33_GuardSurvivesConfig ==
    /\ [][(Len(strategies') > Len(strategies) /\ \E t \in DOMAIN tasks : Outstanding(t))
             => strategies'[Cur'].processing_flag]_vars
    /\ []((Len(strategies) > 1 /\ \E t \in DOMAIN tasks : Outstanding(t))
             => strategies[Cur].processing_flag)

\* The registry q without the entry of connection c.
Without(q, c) == SelectSeq(q, LAMBDA x : x # c)

\* C34: the return of a session's handler takes that session's entry out of
\* the registry and leaves every other entry, and the registry holds exactly
\* the sessions that were admitted and whose handler has not returned.
C34_RegistryHoldsTheLiveSessions ==
    /\ [][\A c \in Conns :
             conn[c].pc = "active" /\ conn'[c].pc = "returned"
                 => connected_clients' = Without(connected_clients, c)]_vars
    /\ [](\A c \in Conns :
             InRegistry(c) <=> (conn[c].outcome = "admitted" /\ conn[c].pc # "returned"))

C37_ReceiveLoopTerminates ==
    /\ (conn[Focus].recv = "closed") ~> (conn[Focus].pc = "returned")
    /\ <>[]~(conn[Focus].pc = "active" /\ conn[Focus].recv = "failed")

\* C38: every Result sent has startTime >= 0 and endTime >= startTime, and
\* no recognition task starts while connect_time is unset.
C38_ResultTimesAreOrdered ==
    /\ [](\A k \in DOMAIN sent[Focus] :
             IsResult(k) =>
                 /\ sent[Focus][k].startTime >= 0
                 /\ sent[Focus][k].endTime >= sent[Focus][k].startTime)
    /\ [][\A t \in DOMAIN tasks :
             (tasks[t].pc = "created" /\ tasks'[t].pc # "created")
                 => connect_time # NoTime]_vars

\* The forward steps of a subtitle task's status.
StatusSteps ==
    {<<STATUS_UPLOAD_IN_PROGRESS, STATUS_AUDIO_WAITING>>,
     <<STATUS_AUDIO_WAITING, STATUS_AUDIO_PROCESSING>>,
     <<STATUS_AUDIO_PROCESSING, STATUS_AUDIO_DONE>>}

TerminalStatuses == {STATUS_AUDIO_DONE, STATUS_FAILED}

\* C39: the status of a subtitle task only moves forward along
\* UPLOAD_IN_PROGRESS -> AUDIO_WAITING -> AUDIO_PROCESSING -> AUDIO_DONE, or
\* from a non-terminal status to FAILED; a task that is AUDIO_DONE or FAILED
\* keeps its status, and its progress is 100 exactly when it is AUDIO_DONE.
C39_StatusOnlyMovesForward ==
    /\ [][\A id \in DOMAIN subtitle_tasks :
             LET old == subtitle_tasks[id].status
                 new == subtitle_tasks'[id].status
             IN  /\ id \in DOMAIN subtitle_tasks'
                 /\ \/ new = old
                    \/ <<old, new>> \in StatusSteps
                    \/ old \notin TerminalStatuses /\ new = STATUS_FAILED]_vars
    /\ [](\A id \in DOMAIN subtitle_tasks :
             /\ subtitle_tasks[id].status \in
                    {STATUS_UPLOAD_IN_PROGRESS, STATUS_AUDIO_WAITING,
                     STATUS_AUDIO_PROCESSING} \cup TerminalStatuses
             /\ subtitle_tasks[id].progress = 100
                    <=> subtitle_tasks[id].status = STATUS_AUDIO_DONE)

\* One task is done with progress 100 and another failed inside the worker,
\* keeping the progress 5 of its start.
C39_OneDoneOneFailed ==
    \E i, j \in DOMAIN subtitle_tasks :
        /\ subtitle_tasks[i].status = STATUS_AUDIO_DONE
        /\ subtitle_tasks[i].progress = 100
        /\ subtitle_tasks[j].status = STATUS_FAILED
        /\ subtitle_tasks[j].progress = 5

====
